---- MODULE Spec2Model ----
(***************************************************************************)
(* A model of src/cli/contracts/agent.registry.ts (class AgentRegistry)    *)
(* and of getChainId from the utilities appended to it.                    *)
(*                                                                         *)
(* AgentRegistry talks to a registry contract through a JSON-RPC endpoint. *)
(* The endpoint, the chain and the contract are not part of the            *)
(* repository: they are modelled as the environment (the contract's        *)
(* behaviour follows the data model of the specification).                 *)
(***************************************************************************)
EXTENDS Integers, Sequences, FiniteSets, TLC

(***************************************************************************)
(* Numbers.  ethers' BigNumber and JavaScript's Number (an IEEE-754        *)
(* double) hold values far beyond the integers of the model checker, so a  *)
(* natural number is a little-endian sequence of 15-bit limbs without a    *)
(* leading (high) zero limb, and a double is a pair [m, e] standing for    *)
(* m * 2^e.                                                                *)
(***************************************************************************)
LimbBits == 5 * 3

Base == 2 ^ LimbBits

RECURSIVE FromNat(_)
FromNat(n) == IF n = 0 THEN <<>> ELSE <<n % Base>> \o FromNat(n \div Base)

\* only for values the model checker's integers hold
RECURSIVE ToNat(_)
ToNat(a) == IF a = <<>> THEN 0 ELSE a[1] + Base * ToNat(Tail(a))

RECURSIVE Norm(_)
Norm(a) ==
  IF a = <<>> THEN <<>>
  ELSE IF a[Len(a)] = 0 THEN Norm(SubSeq(a, 1, Len(a) - 1)) ELSE a

Limb(a, i) == IF i >= 1 /\ i <= Len(a) THEN a[i] ELSE 0

RECURSIVE AddC(_, _, _, _)
AddC(a, b, i, c) ==
  IF i > Len(a) /\ i > Len(b) THEN (IF c = 0 THEN <<>> ELSE <<c>>)
  ELSE LET s == Limb(a, i) + Limb(b, i) + c
       IN  <<s % Base>> \o AddC(a, b, i + 1, s \div Base)

Add(a, b) == AddC(a, b, 1, 0)

\* a times one limb d
RECURSIVE MulLimbC(_, _, _, _)
MulLimbC(a, d, i, c) ==
  IF i > Len(a) THEN (IF c = 0 THEN <<>> ELSE <<c>>)
  ELSE LET s == a[i] * d + c
       IN  <<s % Base>> \o MulLimbC(a, d, i + 1, s \div Base)

MulLimb(a, d) == Norm(MulLimbC(a, d, 1, 0))

ShiftLimbs(a, k) == IF a = <<>> THEN <<>> ELSE [i \in 1..k |-> 0] \o a

RECURSIVE MulFrom(_, _, _)
MulFrom(a, b, i) ==
  IF i > Len(a) THEN <<>>
  ELSE Add(ShiftLimbs(MulLimb(b, a[i]), i - 1), MulFrom(a, b, i + 1))

Mul(a, b) == Norm(MulFrom(a, b, 1))

\* a < b, for normalised a and b
RECURSIVE LessFrom(_, _, _)
LessFrom(a, b, i) ==
  IF i = 0 THEN FALSE
  ELSE IF a[i] # b[i] THEN a[i] < b[i] ELSE LessFrom(a, b, i - 1)

Less(a, b) == IF Len(a) # Len(b) THEN Len(a) < Len(b) ELSE LessFrom(a, b, Len(a))

Leq(a, b) == a = b \/ Less(a, b)

\* the number of bits of a limb, and of a number
RECURSIVE LimbLen(_)
LimbLen(d) == IF d = 0 THEN 0 ELSE 1 + LimbLen(d \div 2)

BitLen(a) == IF a = <<>> THEN 0 ELSE LimbBits * (Len(a) - 1) + LimbLen(a[Len(a)])

\* bit i of a, bit 0 the lowest
Bit(a, i) == (Limb(a, (i \div LimbBits) + 1) \div (2 ^ (i % LimbBits))) % 2

\* a * 2^k and floor(a / 2^k)
ShiftLeft(a, k) == ShiftLimbs(MulLimb(a, 2 ^ (k % LimbBits)), k \div LimbBits)

ShiftRight(a, k) ==
  LET q == k \div LimbBits
      r == k % LimbBits
  IN  Norm([j \in 1..(Len(a) - q) |->
              (Limb(a, j + q) \div (2 ^ r))
                + (Limb(a, j + q + 1) % (2 ^ r)) * (2 ^ (LimbBits - r))])

\* 2^k
Pow2(k) == ShiftLeft(<<1>>, k)

\* a big-endian sequence of hexadecimal digits, as a number
RECURSIVE FromHexUpTo(_, _)
FromHexUpTo(hs, n) ==
  IF n = 0 THEN <<>>
  ELSE Norm(Add(MulLimb(FromHexUpTo(hs, n - 1), 16), FromNat(hs[n])))

FromHex(hs) == FromHexUpTo(hs, Len(hs))

(***************************************************************************)
(* IEEE-754 double arithmetic, as far as getTxOptions uses it.             *)
(***************************************************************************)
\* the width of a double's significand
MantBits == 52 + 1

\* m * 2^e rounded to a double: the nearest, ties to the even significand
RoundToDouble(v) ==
  LET L == BitLen(v.m)
      d == L - MantBits
  IN  IF d <= 0 THEN v
      ELSE LET q      == ShiftRight(v.m, d)
               guard  == Bit(v.m, d - 1)
               sticky == \E i \in 0..(d - 2) : Bit(v.m, i) = 1
               up     == guard = 1 /\ (sticky \/ Bit(q, 0) = 1)
           IN  [m |-> IF up THEN Add(q, <<1>>) ELSE q, e |-> v.e + d]

\* x * y in double arithmetic
FMul(x, y) == RoundToDouble([m |-> Mul(x.m, y.m), e |-> x.e + y.e])

\* Math.round: the nearest integer, a tie going up
MathRound(v) ==
  IF v.e >= 0 THEN ShiftLeft(v.m, v.e)
  ELSE ShiftRight(Add(v.m, Pow2(-v.e - 1)), -v.e)

\* BigNumber.toNumber: the value as a double; it throws once the value needs
\* more than 53 bits
ToNumberThrows(bn) == BitLen(bn) > MantBits

toNumber(bn) == [m |-> bn, e |-> 0]

\* 1.15 is the double 0x1.2666666666666p+0
GAS_MULTIPLIER ==
  [m |-> FromHex(<<1, 2, 6, 6, 6, 6, 6, 6, 6, 6, 6, 6, 6, 6>>), e |-> -52]

\* 1.5 is the double 0x1.8p+0
GAS_PRICE_MULTIPLIER == [m |-> FromHex(<<1, 8>>), e |-> -4]

\* the synchronous part of getTxOptions, after getGasPrice has answered
TxOptionsThrows(gasLimit, gasPrice) ==
  ToNumberThrows(gasLimit) \/ ToNumberThrows(gasPrice)

TxOptions(gasLimit, gasPrice) ==
  [gasLimit |-> MathRound(FMul(toNumber(gasLimit), GAS_MULTIPLIER)),
   gasPrice |-> MathRound(FMul(toNumber(gasPrice), GAS_PRICE_MULTIPLIER))]

(***************************************************************************)
(* The values the operations are called with.                              *)
(***************************************************************************)
AgentIds == {"0xabc", "0xdef"}

References == {"ipfs://ref1", "ipfs://ref2"}

ChainIdLists == {<<1, 137>>}

\* the wallets a caller may pass, and the value passed when there is none
Wallets == {"wallet1", "wallet2"}

undefined == "undefined"

\* fromWallet.address
address(w) == IF w = "wallet1" THEN "0xA1" ELSE "0xA2"

ZeroAddress == "0x0"

\* the callers that may have a call in progress at the same time
Callers == {"caller1"}

\* the number of calls made in a behaviour
MaxCalls == 2

\* what the endpoint may answer to estimateGas and to getGasPrice
GasEstimates == {FromNat(10), FromNat(50)}

GasPrices == {FromNat(3), Pow2(53)}

\* Permission.OWNER
OWNER == 1

WriteMethods == {"createAgent", "updateAgent", "disableAgent", "enableAgent"}

ReadMethods == {"getAgent", "agentExists", "isEnabled"}

VARIABLES
  agents,    \* the registry contract: agent id -> [created, owner, metadata]
  enabled,   \* the registry contract: agent id -> the enabled flag
  txs,       \* the transactions the endpoint has accepted; a hash is an index
  calls,     \* caller -> its latest call: position, arguments, locals, outcome
  invoked,   \* the number of calls made so far
  everCreated, \* the ids a createAgent transaction has been mined for
  chainId,   \* getChainId's module-level cache (let chainId)
  env,       \* process.env.FORTA_CHAIN_ID
  gets,      \* getter -> its latest getChainId call: position and result
  counts     \* the getChainId calls made and the getNetwork requests made

registryVars == <<agents, enabled, txs, calls, invoked, everCreated>>

chainVars == <<chainId, env, gets, counts>>

vars == <<registryVars, chainVars>>

(***************************************************************************)
(* The registry contract, as the data model of the specification has it.   *)
(***************************************************************************)
ZeroAgent == [created |-> FALSE, owner |-> ZeroAddress, metadata |-> ""]

\* the record of one id, as a read at this moment would see it
Snap(id) == [agent |-> agents[id], enabled |-> enabled[id]]

NoSnap == [agent |-> ZeroAgent, enabled |-> FALSE]

\* would the contract revert the call `method(args)` sent by `sender` now?
ContractReverts(method, args, sender) ==
  LET a == agents[args[1]]
  IN  CASE method = "createAgent" -> a.created
        [] method = "updateAgent" -> ~a.created \/ a.owner # sender
        [] OTHER -> ~a.created \/ a.owner # sender \/ args[2] # OWNER

\* the contract's state after `method(args)`
ContractAgents(method, args) ==
  CASE method = "createAgent" ->
         [agents EXCEPT ![args[1]] =
            [created |-> TRUE, owner |-> args[2], metadata |-> args[3]]]
    [] method = "updateAgent" ->
         [agents EXCEPT ![args[1]].metadata = args[2]]
    [] OTHER -> agents

ContractEnabled(method, args) ==
  CASE method = "enableAgent" -> [enabled EXCEPT ![args[1]] = TRUE]
    [] method = "disableAgent" -> [enabled EXCEPT ![args[1]] = FALSE]
    [] OTHER -> enabled

\* the contract's view functions
ContractGetAgent(agentId) == agents[agentId]

ContractIsEnabled(agentId) == enabled[agentId]

(***************************************************************************)
(* A call.  The position of a write call is the await it is suspended at:  *)
(*   "estimateGas"  contract.estimateGas.<method>(...)                     *)
(*   "getGasPrice"  getGasPrice(), in getTxOptions                         *)
(*   "send"         contract.<method>(..., txOptions)                      *)
(*   "wait"         tx.wait()                                              *)
(* and "returned" or "thrown" once it is over; a read is one step.  The    *)
(* locals of a call are dropped when it is over.                           *)
(***************************************************************************)
NoTxOptions == [gasLimit |-> <<>>, gasPrice |-> <<>>]

NoRequest == [method |-> "", args |-> <<>>]

NoRejection == [request |-> "", cause |-> ""]

NoCall ==
  [pc |-> "idle", method |-> "", fromWallet |-> undefined, agentId |-> "",
   reference |-> "", chainIds |-> <<>>,
   contract |-> "",            \* the account the contract object sends from
   gas |-> <<>>,               \* const gas
   gasPrice |-> <<>>,          \* const gasPrice, in getTxOptions
   txOptions |-> NoTxOptions,  \* const txOptions
   tx |-> 0,                   \* const tx: the hash of the transaction
   hash |-> 0,                 \* the hash a write returned
   agent |-> ZeroAgent,        \* the record getAgent returned
   bool |-> FALSE,             \* what agentExists or isEnabled returned
   error |-> "",               \* the error thrown
   \* what follows records the call's history
   estimated |-> NoRequest,    \* the contract call whose gas was estimated
   stages |-> <<>>,            \* the stages the call has been in
   nEstimateGas |-> 0, nGetGasPrice |-> 0, nSend |-> 0, nWait |-> 0,
   atInvoke |-> ZeroAgent,     \* the record of agentId when the call began
   rejected |-> NoRejection,   \* the request the endpoint failed, if any
   seen |-> "",                \* the status of its transaction when it ended
   pre |-> NoSnap,             \* ... just before its transaction was mined
   post |-> NoSnap]            \* ... just after its transaction was mined

\* the stage of the orchestrator a position belongs to
StageOf(pc) ==
  CASE pc \in {"estimateGas", "getGasPrice"} -> "ESTIMATING"
    [] pc = "send" -> "SUBMITTING"
    [] pc = "wait" -> "PENDING"
    [] pc = "returned" -> "CONFIRMED"
    [] pc = "thrown" -> "FAILED"
    [] OTHER -> "NONE"

Over(call) == call.pc \in {"idle", "returned", "thrown"}

Go(call, pc) ==
  [call EXCEPT !.pc = pc,
               !.stages = IF StageOf(pc) # StageOf(call.pc)
                          THEN Append(@, StageOf(pc)) ELSE @]

DropLocals(call) ==
  [call EXCEPT !.contract = "", !.gas = <<>>, !.gasPrice = <<>>,
               !.txOptions = NoTxOptions, !.estimated = NoRequest]

Throw(call, cause) == DropLocals(Go([call EXCEPT !.error = cause], "thrown"))

Return(call) == DropLocals(Go(call, "returned"))

\* the endpoint has failed a request of the call (a record of history)
Rejected(call, request, cause) ==
  [call EXCEPT !.rejected = [request |-> request, cause |-> cause]]

\* getContract(fromWallet): the contract bound to the wallet, or to the bare
\* provider, which sends from no account
getContract(fromWallet) ==
  IF fromWallet # undefined THEN address(fromWallet) ELSE ZeroAddress

\* the contract calls of the four operations: the one whose gas is estimated
\* and the one that is sent
createAgentEstimate(from, agentId, reference, chainIds) ==
  [method |-> "createAgent", args |-> <<agentId, from, reference, chainIds>>]

\* (a variant with two arguments in each other's place)
createAgentSend_Swapped(from, agentId, reference, chainIds) ==
  [method |-> "createAgent", args |-> <<agentId, reference, from, chainIds>>]

createAgentSend(from, agentId, reference, chainIds) ==
  [method |-> "createAgent", args |-> <<agentId, from, reference, chainIds>>]

updateAgentEstimate(agentId, reference, chainIds) ==
  [method |-> "updateAgent", args |-> <<agentId, reference, chainIds>>]

\* (a variant that passes the id where the reference belongs)
updateAgentSend_WrongArg(agentId, reference, chainIds) ==
  [method |-> "updateAgent", args |-> <<agentId, agentId, chainIds>>]

updateAgentSend(agentId, reference, chainIds) ==
  [method |-> "updateAgent", args |-> <<agentId, reference, chainIds>>]

disableAgentEstimate(agentId) ==
  [method |-> "disableAgent", args |-> <<agentId, OWNER>>]

\* (a variant that sends another permission)
disableAgentSend_Admin(agentId) ==
  [method |-> "disableAgent", args |-> <<agentId, 0>>]

disableAgentSend(agentId) ==
  [method |-> "disableAgent", args |-> <<agentId, OWNER>>]

enableAgentEstimate(agentId) ==
  [method |-> "enableAgent", args |-> <<agentId, OWNER>>]

\* (a variant that sends the other method)
enableAgentSend_Disable(agentId) ==
  [method |-> "disableAgent", args |-> <<agentId, OWNER>>]

enableAgentSend(agentId) ==
  [method |-> "enableAgent", args |-> <<agentId, OWNER>>]

EstimatedBy(call) ==
  CASE call.method = "createAgent" ->
         createAgentEstimate(address(call.fromWallet), call.agentId,
                             call.reference, call.chainIds)
    [] call.method = "updateAgent" ->
         updateAgentEstimate(call.agentId, call.reference, call.chainIds)
    [] call.method = "disableAgent" -> disableAgentEstimate(call.agentId)
    [] OTHER -> enableAgentEstimate(call.agentId)

SentBy(call) ==
  CASE call.method = "createAgent" ->
         createAgentSend(address(call.fromWallet), call.agentId,
                         call.reference, call.chainIds)
    [] call.method = "updateAgent" ->
         updateAgentSend(call.agentId, call.reference, call.chainIds)
    [] call.method = "disableAgent" -> disableAgentSend(call.agentId)
    [] OTHER -> enableAgentSend(call.agentId)

\* a write begins: the contract object is made and estimateGas is requested
Begin(call) ==
  IF call.method = "createAgent" /\ call.fromWallet = undefined
  THEN \* const from = fromWallet.address
       Throw([call EXCEPT !.pc = "estimateGas"], "TypeError")
  ELSE [call EXCEPT !.pc = "estimateGas",
                    !.contract = getContract(call.fromWallet),
                    !.estimated = EstimatedBy(call),
                    !.nEstimateGas = @ + 1]

Invoke(c, method, fromWallet, agentId, reference, chainIds) ==
  /\ Over(calls[c])
  /\ invoked < MaxCalls
  /\ invoked' = invoked + 1
  /\ calls' = [calls EXCEPT ![c] =
       Begin([NoCall EXCEPT !.method = method, !.fromWallet = fromWallet,
                            !.agentId = agentId, !.reference = reference,
                            !.chainIds = chainIds,
                            !.stages = <<"ESTIMATING">>,
                            !.atInvoke = agents[agentId]])]
  /\ UNCHANGED <<agents, enabled, txs, everCreated, chainVars>>

createAgent(c) ==
  \E w \in Wallets \cup {undefined}, id \in AgentIds, ref \in References,
     ch \in ChainIdLists :
    Invoke(c, "createAgent", w, id, ref, ch)

updateAgent(c) ==
  \E w \in Wallets \cup {undefined}, id \in AgentIds, ref \in References,
     ch \in ChainIdLists :
    Invoke(c, "updateAgent", w, id, ref, ch)

disableAgent(c) ==
  \E w \in Wallets \cup {undefined}, id \in AgentIds :
    Invoke(c, "disableAgent", w, id, "", <<>>)

enableAgent(c) ==
  \E w \in Wallets \cup {undefined}, id \in AgentIds :
    Invoke(c, "enableAgent", w, id, "", <<>>)

\* (a variant that keeps the gas price of an earlier call instead of asking)
OnGas_CachedPrice(call, gas) ==
  Go([call EXCEPT !.gas = gas, !.gasPrice = FromNat(3),
                  !.txOptions = TxOptions(gas, FromNat(3)),
                  !.nSend = @ + 1], "send")

\* estimateGas answers with an estimate; getTxOptions begins and requests
\* the gas price
OnGas(call, gas) ==
  IF call.fromWallet = undefined
  THEN \* fromWallet.connect(...)
       Throw(call, "TypeError")
  ELSE Go([call EXCEPT !.gas = gas, !.nGetGasPrice = @ + 1], "getGasPrice")

EstimateGasReturns(c) ==
  /\ calls[c].pc = "estimateGas"
  /\ ~ContractReverts(calls[c].estimated.method, calls[c].estimated.args,
                      calls[c].contract)
  /\ \E gas \in GasEstimates : calls' = [calls EXCEPT ![c] = OnGas(@, gas)]
  /\ UNCHANGED <<agents, enabled, txs, invoked, everCreated, chainVars>>

\* (a variant that asks for the estimate again)
OnGasError_Retry(call, cause) == [call EXCEPT !.nEstimateGas = @ + 1]

\* (a variant that swallows the error and goes on with a default estimate)
OnGasError_Default(call, cause) ==
  Go([call EXCEPT !.gas = FromNat(10), !.nGetGasPrice = @ + 1], "getGasPrice")

\* (a variant that catches the error and asks again until there is an answer)
OnGasError_Again(call, cause) == call

\* estimateGas fails: the call would revert, or the endpoint is unreachable
OnGasError(call, cause) == Throw(call, cause)

EstimateGasFails(c) ==
  /\ calls[c].pc = "estimateGas"
  /\ \E cause \in {"NETWORK_ERROR", "UNPREDICTABLE_GAS_LIMIT"} :
       /\ cause = "UNPREDICTABLE_GAS_LIMIT" =>
            ContractReverts(calls[c].estimated.method, calls[c].estimated.args,
                            calls[c].contract)
       /\ calls' = [calls EXCEPT ![c] =
            Rejected(OnGasError(@, cause), "estimateGas", cause)]
  /\ UNCHANGED <<agents, enabled, txs, invoked, everCreated, chainVars>>

\* getGasPrice answers; getTxOptions returns the options, and the
\* transaction is sent
OnGasPrice(call, gasPrice) ==
  IF TxOptionsThrows(call.gas, gasPrice)
  THEN Throw(call, "NUMERIC_FAULT")
  ELSE Go([call EXCEPT !.gasPrice = gasPrice,
                       !.txOptions = TxOptions(call.gas, gasPrice),
                       !.nSend = @ + 1], "send")

GetGasPriceReturns(c) ==
  /\ calls[c].pc = "getGasPrice"
  /\ \E gasPrice \in GasPrices :
       calls' = [calls EXCEPT ![c] = OnGasPrice(@, gasPrice)]
  /\ UNCHANGED <<agents, enabled, txs, invoked, everCreated, chainVars>>

\* (a variant that swallows the error and goes on with a default price)
OnGasPriceError_Default(call, cause) ==
  Go([call EXCEPT !.gasPrice = FromNat(1),
                  !.txOptions = TxOptions(call.gas, FromNat(1)),
                  !.nSend = @ + 1], "send")

\* getGasPrice fails
OnGasPriceError(call, cause) == Throw(call, cause)

GetGasPriceFails(c) ==
  /\ calls[c].pc = "getGasPrice"
  /\ calls' = [calls EXCEPT ![c] =
       Rejected(OnGasPriceError(@, "NETWORK_ERROR"), "getGasPrice",
                "NETWORK_ERROR")]
  /\ UNCHANGED <<agents, enabled, txs, invoked, everCreated, chainVars>>

\* A transaction of the endpoint.  Once no call waits for it, no call can
\* see it any more: only what the contract will run is kept of it, and
\* nothing but its place once it is mined.
NewTx(call) ==
  LET sent == SentBy(call)
  IN  [method |-> sent.method, args |-> sent.args, from |-> call.contract,
       gasLimit |-> call.txOptions.gasLimit,
       gasPrice |-> call.txOptions.gasPrice,
       status |-> "pending", pre |-> NoSnap, post |-> NoSnap]

SettledTx ==
  [method |-> "", args |-> <<>>, from |-> "", gasLimit |-> <<>>,
   gasPrice |-> <<>>, status |-> "settled", pre |-> NoSnap, post |-> NoSnap]

Settle(ts, cs) ==
  [h \in DOMAIN ts |->
     IF \E c \in DOMAIN cs : cs[c].pc = "wait" /\ cs[c].tx = h THEN ts[h]
     ELSE IF ts[h].status = "pending"
          THEN [ts[h] EXCEPT !.gasLimit = <<>>, !.gasPrice = <<>>]
          ELSE SettledTx]

\* (a variant that returns the hash without waiting for the transaction)
OnSent_NoWait(call, hash) == Return([call EXCEPT !.tx = hash, !.hash = hash])

\* (a variant that bounds the wait: it gives up on the transaction at once)
OnSent_Timeout(call, hash) == Throw([call EXCEPT !.tx = hash], "TIMEOUT")

\* the endpoint accepts the transaction; the call waits for it
OnSent(call, hash) ==
  Go([call EXCEPT !.tx = hash, !.nWait = @ + 1], "wait")

SendReturns(c) ==
  /\ calls[c].pc = "send"
  /\ txs' = Append(txs, NewTx(calls[c]))
  /\ calls' = [calls EXCEPT ![c] = OnSent(@, Len(txs) + 1)]
  /\ UNCHANGED <<agents, enabled, invoked, everCreated, chainVars>>

\* signing or the broadcast fails
OnSendError(call, cause) == Throw(call, cause)

SendFails(c) ==
  /\ calls[c].pc = "send"
  /\ calls' = [calls EXCEPT ![c] =
       Rejected(OnSendError(@, "NETWORK_ERROR"), "send", "NETWORK_ERROR")]
  /\ UNCHANGED <<agents, enabled, txs, invoked, everCreated, chainVars>>

\* the network mines a transaction: the contract runs it or reverts it
Mine(h) ==
  /\ txs[h].status = "pending"
  /\ LET t == txs[h]
         id == t.args[1]
         reverts == ContractReverts(t.method, t.args, t.from)
     IN /\ agents' = IF reverts THEN agents ELSE ContractAgents(t.method, t.args)
        /\ enabled' = IF reverts THEN enabled
                      ELSE ContractEnabled(t.method, t.args)
        /\ txs' = Settle([txs EXCEPT
                            ![h].status = IF reverts THEN "reverted" ELSE "mined",
                            ![h].pre = Snap(id),
                            ![h].post = [agent |-> agents'[id],
                                         enabled |-> enabled'[id]]],
                         calls)
        /\ everCreated' = IF t.method = "createAgent" /\ ~reverts
                          THEN everCreated \cup {id} ELSE everCreated
  /\ UNCHANGED <<calls, invoked, chainVars>>

\* (a variant that keeps the transaction in a field all calls share, so
\* that the hash returned is that of the latest transaction sent)
OnMined_Latest(call) == Return([call EXCEPT !.hash = Len(txs)])

\* tx.wait() resolves once the transaction is mined; the call returns
OnMined(call) == Return([call EXCEPT !.hash = call.tx])

Observe(call) ==
  [call EXCEPT !.seen = txs[call.tx].status,
               !.pre = txs[call.tx].pre, !.post = txs[call.tx].post]

WaitReturns(c) ==
  /\ calls[c].pc = "wait"
  /\ txs[calls[c].tx].status = "mined"
  /\ calls' = [calls EXCEPT ![c] = OnMined(Observe(@))]
  /\ txs' = Settle(txs, calls')
  /\ UNCHANGED <<agents, enabled, invoked, everCreated, chainVars>>

\* (a variant that sends the transaction again)
OnWaitError_Resend(call, cause) == Go([call EXCEPT !.nSend = @ + 1], "send")

\* tx.wait() rejects: the transaction was reverted, or the endpoint is lost
OnWaitError(call, cause) == Throw(call, cause)

WaitFails(c) ==
  /\ calls[c].pc = "wait"
  /\ \E cause \in {"NETWORK_ERROR", "CALL_EXCEPTION"} :
       /\ cause = "CALL_EXCEPTION" => txs[calls[c].tx].status = "reverted"
       /\ calls' = [calls EXCEPT ![c] =
            Rejected(OnWaitError(Observe(@), cause), "wait", cause)]
  /\ txs' = Settle(txs, calls')
  /\ UNCHANGED <<agents, enabled, invoked, everCreated, chainVars>>

(***************************************************************************)
(* The read operations: one request to the endpoint each.                  *)
(***************************************************************************)
\* (a variant that asks for one fixed id)
getAgent_FixedId(agentId) == ContractGetAgent("0xabc")

getAgent(agentId) == ContractGetAgent(agentId)

agentExists(agentId) == getAgent(agentId).created

isEnabled(agentId) == ContractIsEnabled(agentId)

\* the contract call a read makes (agentExists calls getAgent)
getAgentRequest(agentId) == [method |-> "getAgent", args |-> <<agentId>>]

\* (a variant that calls the method that sets the flag)
isEnabledRequest_Enable(agentId) ==
  [method |-> "enableAgent", args |-> <<agentId, OWNER>>]

isEnabledRequest(agentId) == [method |-> "isEnabled", args |-> <<agentId>>]

ReadRequest(method, agentId) ==
  IF method = "isEnabled" THEN isEnabledRequest(agentId)
  ELSE getAgentRequest(agentId)

\* The endpoint is unreachable and the read fails, or the contract runs the
\* method called and the read returns what it gives.
Read(c, method, agentId) ==
  /\ Over(calls[c])
  /\ invoked < MaxCalls
  /\ invoked' = invoked + 1
  /\ LET call == [NoCall EXCEPT !.method = method, !.agentId = agentId,
                                !.atInvoke = agents[agentId]]
         request == ReadRequest(method, agentId)
     IN  \/ /\ calls' = [calls EXCEPT ![c] =
                  [call EXCEPT !.pc = "thrown", !.error = "NETWORK_ERROR"]]
            /\ UNCHANGED <<agents, enabled>>
         \/ /\ calls' = [calls EXCEPT ![c] =
                  [call EXCEPT
                     !.pc = "returned",
                     !.agent = IF method = "getAgent" THEN getAgent(agentId)
                               ELSE @,
                     !.bool = CASE method = "agentExists" -> agentExists(agentId)
                                [] method = "isEnabled" -> isEnabled(agentId)
                                [] OTHER -> @]]
            /\ agents' = ContractAgents(request.method, request.args)
            /\ enabled' = ContractEnabled(request.method, request.args)
  /\ UNCHANGED <<txs, everCreated, chainVars>>

ReadGetAgent(c) == \E id \in AgentIds : Read(c, "getAgent", id)

ReadAgentExists(c) == \E id \in AgentIds : Read(c, "agentExists", id)

ReadIsEnabled(c) == \E id \in AgentIds : Read(c, "isEnabled", id)

(***************************************************************************)
(* getChainId.  A number or a string of JavaScript may be undefined; a     *)
(* string is the sequence of its characters.                               *)
(***************************************************************************)
NoNumber == [defined |-> FALSE, nan |-> FALSE, value |-> 0]

Number(n) == [defined |-> TRUE, nan |-> FALSE, value |-> n]

NaN == [defined |-> TRUE, nan |-> TRUE, value |-> 0]

NoString == [defined |-> FALSE, chars |-> <<>>]

String(cs) == [defined |-> TRUE, chars |-> cs]

\* what an `if` takes for true
TruthyNumber(v) == v.defined /\ ~v.nan /\ v.value # 0

TruthyString(v) == v.defined /\ v.chars # <<>>

Digits == <<"0", "1", "2", "3", "4", "5", "6", "7", "8", "9">>

IsDigit(ch) == \E d \in DOMAIN Digits : Digits[d] = ch

DigitValue(ch) == (CHOOSE d \in DOMAIN Digits : Digits[d] = ch) - 1

\* the value of the first n characters, all digits
RECURSIVE DecimalUpTo(_, _)
DecimalUpTo(cs, n) ==
  IF n = 0 THEN 0 ELSE 10 * DecimalUpTo(cs, n - 1) + DigitValue(cs[n])

\* the length of the run of digits a string begins with
RECURSIVE DigitsFrom(_, _)
DigitsFrom(cs, i) ==
  IF i <= Len(cs) /\ IsDigit(cs[i]) THEN 1 + DigitsFrom(cs, i + 1) ELSE 0

\* parseInt, of a string without blanks, sign or radix prefix: the number
\* its leading digits spell, or NaN when it begins with none
parseInt(cs) ==
  IF DigitsFrom(cs, 1) = 0 THEN NaN
  ELSE Number(DecimalUpTo(cs, DigitsFrom(cs, 1)))

\* the values of FORTA_CHAIN_ID, and the chain id of the provider's network
EnvValues ==
  {NoString, String(<<>>), String(<<"1", "3", "7">>), String(<<"5", "x">>)}

NetworkChainIds == {1}

Getters == {"getter1", "getter2"}

\* the number of getChainId calls made in a behaviour
MaxGets == 4

NoGet == [pc |-> "idle", result |-> NoNumber, error |-> ""]

\* getChainId, up to its return or to the await of provider.getNetwork()
getChainId(g) ==
  /\ gets[g].pc # "getNetwork"
  /\ counts.getChainId < MaxGets
  /\ IF TruthyString(env)
     THEN /\ gets' = [gets EXCEPT ![g] =
                 [NoGet EXCEPT !.pc = "returned", !.result = parseInt(env.chars)]]
          /\ counts' = [counts EXCEPT !.getChainId = @ + 1]
     ELSE IF ~TruthyNumber(chainId)
     THEN /\ gets' = [gets EXCEPT ![g] = [NoGet EXCEPT !.pc = "getNetwork"]]
          /\ counts' = [counts EXCEPT !.getChainId = @ + 1,
                                      !.getNetwork = @ + 1]
     ELSE /\ gets' = [gets EXCEPT ![g] =
                 [NoGet EXCEPT !.pc = "returned", !.result = chainId]]
          /\ counts' = [counts EXCEPT !.getChainId = @ + 1]
  /\ UNCHANGED <<chainId, env, registryVars>>

\* provider.getNetwork() answers: the cache is assigned and returned
GetNetworkReturns(g) ==
  /\ gets[g].pc = "getNetwork"
  /\ \E n \in NetworkChainIds :
       /\ chainId' = Number(n)
       /\ gets' = [gets EXCEPT ![g] =
            [@ EXCEPT !.pc = "returned", !.result = Number(n)]]
  /\ UNCHANGED <<env, counts, registryVars>>

\* provider.getNetwork() fails: getChainId throws, the cache is left alone
GetNetworkFails(g) ==
  /\ gets[g].pc = "getNetwork"
  /\ gets' = [gets EXCEPT ![g] =
       [@ EXCEPT !.pc = "thrown", !.error = "NETWORK_ERROR"]]
  /\ UNCHANGED <<chainId, env, counts, registryVars>>

\* the module is loaded and no getChainId call has been made
ChainIdle ==
  /\ chainId = NoNumber
  /\ gets = [g \in Getters |-> NoGet]
  /\ counts = [getChainId |-> 0, getNetwork |-> 0]

(***************************************************************************)
(* The specification.                                                      *)
(***************************************************************************)
\* The registry is there before an AgentRegistry is constructed for it: it
\* is empty, or "0xabc" has been created in it by wallet1.
InitWith(callers) ==
  /\ agents \in
       {[id \in AgentIds |-> ZeroAgent],
        [id \in AgentIds |->
           IF id = "0xabc"
           THEN [created |-> TRUE, owner |-> address("wallet1"),
                 metadata |-> "ipfs://ref1"]
           ELSE ZeroAgent]}
  /\ enabled = [id \in AgentIds |-> FALSE]
  /\ txs = <<>>
  /\ calls = [c \in callers |-> NoCall]
  /\ invoked = 0
  /\ everCreated = {id \in AgentIds : agents[id].created}

Init == InitWith(Callers) /\ ChainIdle /\ env = NoString

Next ==
  \/ \E c \in DOMAIN calls : createAgent(c)
  \/ \E c \in DOMAIN calls : updateAgent(c)
  \/ \E c \in DOMAIN calls : disableAgent(c)
  \/ \E c \in DOMAIN calls : enableAgent(c)
  \/ \E c \in DOMAIN calls : EstimateGasReturns(c)
  \/ \E c \in DOMAIN calls : EstimateGasFails(c)
  \/ \E c \in DOMAIN calls : GetGasPriceReturns(c)
  \/ \E c \in DOMAIN calls : GetGasPriceFails(c)
  \/ \E c \in DOMAIN calls : SendReturns(c)
  \/ \E c \in DOMAIN calls : SendFails(c)
  \/ \E h \in 1..Len(txs) : Mine(h)
  \/ \E c \in DOMAIN calls : WaitReturns(c)
  \/ \E c \in DOMAIN calls : WaitFails(c)
  \/ \E c \in DOMAIN calls : ReadGetAgent(c)
  \/ \E c \in DOMAIN calls : ReadAgentExists(c)
  \/ \E c \in DOMAIN calls : ReadIsEnabled(c)

Spec == Init /\ [][Next]_vars

\* The endpoint answers every request, with a result or with an error; a
\* submitted transaction is mined in the end, or else the wait for it gives
\* up.  (An await suspends the call only until its promise settles.)
Fairness ==
  /\ \A c \in Callers :
       /\ WF_vars(EstimateGasFails(c) \/ EstimateGasReturns(c))
       /\ WF_vars(GetGasPriceFails(c) \/ GetGasPriceReturns(c))
       /\ WF_vars(SendFails(c) \/ SendReturns(c))
       /\ WF_vars(WaitFails(c) \/ WaitReturns(c))
  /\ WF_vars(\E h \in 1..Len(txs) : Mine(h))

FairSpec == Spec /\ Fairness

\* getChainId alone, called by two getters whose calls may be in progress at
\* the same time, in a process started with any value of FORTA_CHAIN_ID.
ChainInit ==
  /\ ChainIdle
  /\ env \in EnvValues
  /\ agents = [id \in AgentIds |-> ZeroAgent]
  /\ enabled = [id \in AgentIds |-> FALSE]
  /\ txs = <<>>
  /\ calls = [c \in Callers |-> NoCall]
  /\ invoked = 0
  /\ everCreated = {}

ChainNext ==
  \/ \E g \in Getters : getChainId(g)
  \/ \E g \in Getters : GetNetworkReturns(g)
  \/ \E g \in Getters : GetNetworkFails(g)

ChainSpec == ChainInit /\ [][ChainNext]_vars

\* The same operations with two callers, whose calls may be in progress at
\* the same time.
ConcCallers == {"caller1", "caller2"}

ConcInit == InitWith(ConcCallers) /\ ChainIdle /\ env = NoString

ConcSpec == ConcInit /\ [][Next]_vars

(***************************************************************************)
(* The claims.                                                             *)
(***************************************************************************)
IsWrite(call) == call.method \in WriteMethods

\* C1: a write call submits at most one transaction, and one that returns
\* has submitted exactly one, has seen it mined before returning, and
\* returns its hash; none returns while its transaction is unconfirmed.
C1_OneConfirmedTransaction ==
  /\ Len(txs) <= invoked
  /\ \A c \in DOMAIN calls :
       LET call == calls[c]
       IN  IsWrite(call) =>
             /\ call.nSend <= 1
             /\ call.tx # 0 => call.nSend = 1 /\ call.tx \in 1..Len(txs)
             /\ call.pc = "returned" =>
                  /\ call.nSend = 1
                  /\ call.nWait = 1
                  /\ call.tx # 0
                  /\ call.hash = call.tx
                  /\ call.seen = "mined"
                  /\ txs[call.tx].status # "pending"

C1_Witness ==
  \E c \in DOMAIN calls :
    IsWrite(calls[c]) /\ calls[c].pc = "returned" /\ calls[c].hash # 0

\* C2: when the gas-estimate query or the gas-price query fails, the call
\* fails in the estimating stage with the query's error, and has submitted
\* no transaction.
C2_EstimationFailure ==
  \A c \in DOMAIN calls :
    LET call == calls[c]
    IN  call.rejected.request \in {"estimateGas", "getGasPrice"} =>
          /\ call.pc = "thrown"
          /\ call.error = call.rejected.cause
          /\ call.stages = <<"ESTIMATING", "FAILED">>
          /\ call.nSend = 0
          /\ call.tx = 0

C2_Witness ==
  \E c \in DOMAIN calls :
    /\ calls[c].method = "createAgent"
    /\ calls[c].atInvoke.created
    /\ calls[c].rejected =
         [request |-> "estimateGas", cause |-> "UNPREDICTABLE_GAS_LIMIT"]

\* C3: a write call goes through ESTIMATING, SUBMITTING, PENDING, CONFIRMED
\* in that order, without skipping or revisiting a stage; FAILED may follow
\* ESTIMATING, SUBMITTING or PENDING; CONFIRMED and FAILED end the call:
\* nothing of it changes afterwards until the caller makes its next call.
StageOrders ==
  {<<"ESTIMATING">>,
   <<"ESTIMATING", "SUBMITTING">>,
   <<"ESTIMATING", "SUBMITTING", "PENDING">>,
   <<"ESTIMATING", "SUBMITTING", "PENDING", "CONFIRMED">>,
   <<"ESTIMATING", "FAILED">>,
   <<"ESTIMATING", "SUBMITTING", "FAILED">>,
   <<"ESTIMATING", "SUBMITTING", "PENDING", "FAILED">>}

C3_StagesInOrder ==
  /\ [](\A c \in DOMAIN calls :
          IsWrite(calls[c]) =>
            /\ calls[c].stages \in StageOrders
            /\ calls[c].stages[Len(calls[c].stages)] = StageOf(calls[c].pc))
  /\ [][\A c \in DOMAIN calls :
          (IsWrite(calls[c]) /\ Over(calls[c]) /\ calls'[c] # calls[c]) =>
            /\ invoked' = invoked + 1
            /\ calls'[c].stages \in {<<>>, <<"ESTIMATING">>,
                                     <<"ESTIMATING", "FAILED">>}]_vars

C3_Witness ==
  \E c \in DOMAIN calls :
    calls[c].stages = <<"ESTIMATING", "SUBMITTING", "PENDING", "FAILED">>

\* C4: nothing is retried: a write call asks for the gas estimate, asks for
\* the gas price, sends and waits at most once each, and once the endpoint
\* has failed one of these the call is over and has made no later request.
C4_NoRetries ==
  \A c \in DOMAIN calls :
    LET call == calls[c]
        r == call.rejected.request
    IN  IsWrite(call) =>
          /\ call.nEstimateGas <= 1
          /\ call.nGetGasPrice <= 1
          /\ call.nSend <= 1
          /\ call.nWait <= 1
          /\ r # "" => call.pc = "thrown"
          /\ r = "estimateGas" =>
               call.nGetGasPrice = 0 /\ call.nSend = 0 /\ call.nWait = 0
          /\ r = "getGasPrice" => call.nSend = 0 /\ call.nWait = 0
          /\ r = "send" => call.nWait = 0 /\ call.tx = 0

C4_Witness ==
  \E c \in DOMAIN calls :
    calls[c].rejected.request = "send" /\ calls[c].nSend = 1

\* limit = round(n * num / den), a tie going up
IsRounded(limit, n, num, den) ==
  LET twice == Add(Mul(Mul(n, FromNat(num)), FromNat(2)), FromNat(den))
      lower == Mul(limit, FromNat(2 * den))
  IN  Leq(lower, twice) /\ Less(twice, Add(lower, FromNat(2 * den)))

\* C5: for every gas estimate G > 0 and gas price P > 0 of the network the
\* fee quote of the transaction is gas limit = round(G * 1.15) and gas price
\* = round(P * 1.5), and no G, P makes the fee computation fail.
C5_FeeQuote ==
  \A c \in DOMAIN calls :
    LET call == calls[c]
    IN  /\ call.error # "NUMERIC_FAULT"
        /\ call.pc \in {"send", "wait"} =>
             /\ IsRounded(call.txOptions.gasLimit, call.gas, 115, 100)
             /\ IsRounded(call.txOptions.gasPrice, call.gasPrice, 15, 10)
        /\ call.pc = "wait" =>
             /\ txs[call.tx].gasLimit = call.txOptions.gasLimit
             /\ txs[call.tx].gasPrice = call.txOptions.gasPrice

\* C6: after a successful createAgent(signer, id, ref, chains) on an id not
\* created before, agentExists(id) is true and getAgent(id) gives created =
\* true, owner = signer.address and metadata = ref.
C6_CreateThenRead ==
  \A c \in DOMAIN calls :
    LET call == calls[c]
    IN  (call.method = "createAgent" /\ call.pc = "returned") =>
          /\ ~call.pre.agent.created
          /\ call.post.agent = [created |-> TRUE,
                                owner |-> address(call.fromWallet),
                                metadata |-> call.reference]
          /\ agentExists(call.agentId)
          /\ getAgent(call.agentId).owner = address(call.fromWallet)
          /\ call.agentId \in everCreated

C6_Witness ==
  \E c \in DOMAIN calls :
    /\ calls[c].method = "createAgent"
    /\ calls[c].pc = "returned"
    /\ ~calls[c].atInvoke.created
    /\ getAgent(calls[c].agentId).metadata = calls[c].reference

\* C7: a createAgent on an id that a successful createAgent has created
\* before, by any signer, fails in the estimating stage and submits no
\* transaction, and no step of it changes the registry.
DuplicateCreate(call) ==
  /\ call.method = "createAgent"
  /\ call.fromWallet # undefined
  /\ call.atInvoke.created

C7_DuplicateCreateFails ==
  /\ [](\A c \in DOMAIN calls :
          DuplicateCreate(calls[c]) =>
            /\ calls[c].pc \in {"estimateGas", "thrown"}
            /\ calls[c].pc = "thrown" =>
                 /\ calls[c].stages = <<"ESTIMATING", "FAILED">>
                 /\ calls[c].error \in {"UNPREDICTABLE_GAS_LIMIT",
                                        "NETWORK_ERROR"}
            /\ calls[c].nSend = 0
            /\ calls[c].tx = 0)
  /\ [][\A c \in DOMAIN calls :
          (DuplicateCreate(calls[c]) /\ ~Over(calls[c])
             /\ calls'[c] # calls[c]) =>
            /\ agents' = agents
            /\ enabled' = enabled
            /\ txs' = txs]_vars

C7_Witness ==
  \E c \in DOMAIN calls :
    /\ DuplicateCreate(calls[c])
    /\ address(calls[c].fromWallet) # calls[c].atInvoke.owner
    /\ calls[c].reference # calls[c].atInvoke.metadata
    /\ calls[c].pc = "thrown"
    /\ calls[c].error = "UNPREDICTABLE_GAS_LIMIT"
    /\ agents[calls[c].agentId] = calls[c].atInvoke

\* C8: after a successful updateAgent(signer, id, ref', chains') on a
\* created id, the metadata of id is ref', and its owner and created are
\* what they were before the call.
C8_UpdateKeepsOwner ==
  \A c \in DOMAIN calls :
    LET call == calls[c]
    IN  (call.method = "updateAgent" /\ call.pc = "returned"
           /\ call.atInvoke.created) =>
          /\ call.post.agent.metadata = call.reference
          /\ call.post.agent.owner = call.atInvoke.owner
          /\ call.post.agent.created = call.atInvoke.created
          /\ call.post.enabled = call.pre.enabled
          /\ getAgent(call.agentId).owner = call.atInvoke.owner
          /\ getAgent(call.agentId).created = call.atInvoke.created

C8_Witness ==
  \E c \in DOMAIN calls :
    /\ calls[c].method = "updateAgent"
    /\ calls[c].pc = "returned"
    /\ calls[c].atInvoke.created
    /\ calls[c].reference # calls[c].atInvoke.metadata
    /\ getAgent(calls[c].agentId).metadata = calls[c].reference

\* C9: a successful enableAgent leaves the id enabled and a successful
\* disableAgent leaves it disabled; either one applied to an id that is in
\* that state already does not fail for it and leaves the record as it was.
ByOwner(call) ==
  /\ call.method \in {"enableAgent", "disableAgent"}
  /\ call.atInvoke.created
  /\ call.fromWallet # undefined
  /\ address(call.fromWallet) = call.atInvoke.owner

C9_EnableDisable ==
  \A c \in DOMAIN calls :
    LET call == calls[c]
        on == call.method = "enableAgent"
    IN  /\ (call.method \in {"enableAgent", "disableAgent"}
              /\ call.pc = "returned") =>
             /\ call.post.enabled = on
             /\ call.post.agent = call.pre.agent
             /\ call.pre.enabled = on => call.post = call.pre
        /\ ByOwner(call) =>
             /\ call.error \notin {"UNPREDICTABLE_GAS_LIMIT", "CALL_EXCEPTION"}
             /\ call.seen # "reverted"

C9_Witness ==
  \E c \in DOMAIN calls :
    /\ calls[c].method = "enableAgent"
    /\ calls[c].pc = "returned"
    /\ calls[c].pre.enabled
    /\ isEnabled(calls[c].agentId)

\* C10: an id for which no createAgent transaction has been mined has the
\* zero-value record, whatever has been done to other ids and whatever has
\* failed on it: getAgent returns that record as a normal result and
\* agentExists returns false; agentExists(id) is getAgent(id).created always.
C10_NeverCreated ==
  /\ \A id \in AgentIds :
       /\ agentExists(id) = agents[id].created
       /\ id \notin everCreated =>
            /\ getAgent(id) = ZeroAgent
            /\ ~agentExists(id)
  /\ \A c \in DOMAIN calls :
       LET call == calls[c]
       IN  call.method \in ReadMethods =>
             /\ call.pc = "thrown" => call.error = "NETWORK_ERROR"
             /\ (call.pc = "returned" /\ call.method = "getAgent") =>
                  /\ call.agent = call.atInvoke
                  /\ ~call.atInvoke.created => call.agent = ZeroAgent
             /\ (call.pc = "returned" /\ call.method = "agentExists") =>
                  call.bool = call.atInvoke.created

C10_Witness ==
  \E c \in DOMAIN calls :
    /\ calls[c].method = "getAgent"
    /\ calls[c].pc = "returned"
    /\ calls[c].agentId \notin everCreated
    /\ calls[c].agent = ZeroAgent
    /\ everCreated # {}

\* the error kind the taxonomy gives a failed write call: the missing signer,
\* or else the stage the call was in when it failed
ErrorKind(call) ==
  IF call.fromWallet = undefined THEN "MissingSignerError"
  ELSE CASE call.stages[Len(call.stages) - 1] = "ESTIMATING" -> "EstimationError"
         [] call.stages[Len(call.stages) - 1] = "SUBMITTING" -> "SubmissionError"
         [] OTHER -> "ConfirmationError"

Failed(call) == IsWrite(call) /\ call.pc = "thrown"

\* C11: a failed write call reports the error of the request that failed, no
\* failure of a request is swallowed or turned into a success, and the
\* caller can tell the four kinds of failure apart: two failed calls of
\* different kinds (missing signer, estimation, submission, confirmation)
\* never carry the same error.
C11_ErrorKinds ==
  /\ \A c \in DOMAIN calls :
       calls[c].rejected.request # "" =>
         calls[c].pc = "thrown" /\ calls[c].error = calls[c].rejected.cause
  /\ \A c1, c2 \in DOMAIN calls :
       (Failed(calls[c1]) /\ Failed(calls[c2])
          /\ ErrorKind(calls[c1]) # ErrorKind(calls[c2])) =>
         calls[c1].error # calls[c2].error

\* C12: a write method invoked without a signer fails with the error of the
\* missing signer (in the code, the TypeError of using the undefined
\* wallet), whatever the endpoint answers or fails to answer, and submits no
\* transaction.
C12_MissingSigner ==
  \A c \in DOMAIN calls :
    LET call == calls[c]
    IN  (IsWrite(call) /\ call.fromWallet = undefined) =>
          /\ call.nSend = 0
          /\ call.tx = 0
          /\ call.pc # "returned"
          /\ call.pc = "thrown" => call.error = "TypeError"

\* C13: calls in progress at the same time share nothing of the
\* orchestrator: a step changes the record of one call at most; the fee
\* quote of a call is computed from its own estimate and price, its
\* transaction is the one it sent, with its own quote, and no other call's,
\* the hash it returns is that of its own transaction, and it ends as its
\* own requests ended; the record of an id changes only when a transaction
\* for that id is mined, so calls for other ids do not touch it.
C13_IndependentCalls ==
  /\ [](\A c \in DOMAIN calls :
          LET call == calls[c]
          IN  IsWrite(call) =>
                /\ call.pc \in {"send", "wait"} =>
                     /\ call.txOptions.gasLimit =
                          MathRound(FMul(toNumber(call.gas), GAS_MULTIPLIER))
                     /\ call.txOptions.gasPrice =
                          MathRound(FMul(toNumber(call.gasPrice),
                                         GAS_PRICE_MULTIPLIER))
                /\ call.pc = "wait" =>
                     /\ call.tx \in 1..Len(txs)
                     /\ txs[call.tx].method = call.method
                     /\ txs[call.tx].args[1] = call.agentId
                     /\ txs[call.tx].from = address(call.fromWallet)
                     /\ txs[call.tx].gasLimit = call.txOptions.gasLimit
                     /\ txs[call.tx].gasPrice = call.txOptions.gasPrice
                /\ call.pc = "returned" =>
                     call.hash = call.tx /\ call.seen = "mined"
                /\ (call.pc = "thrown" /\ call.rejected.request # "") =>
                     call.error = call.rejected.cause
                /\ \A d \in DOMAIN calls \ {c} :
                     (call.tx # 0 /\ IsWrite(calls[d])) => calls[d].tx # call.tx)
  /\ [][/\ \A c, d \in DOMAIN calls :
            c # d => calls'[c] = calls[c] \/ calls'[d] = calls[d]
        /\ \A id \in AgentIds :
            (agents'[id] # agents[id] \/ enabled'[id] # enabled[id]) =>
              \E h \in 1..Len(txs) :
                /\ txs[h].status = "pending"
                /\ txs'[h].status # "pending"
                /\ txs[h].args[1] = id]_vars

\* two calls for different ids were waiting at the same time, and the one
\* that sent its transaction later has returned first
C13_Witness ==
  \E c, d \in DOMAIN calls :
    /\ c # d
    /\ IsWrite(calls[c]) /\ IsWrite(calls[d])
    /\ calls[c].agentId # calls[d].agentId
    /\ calls[c].pc = "returned" /\ calls[c].hash = 2
    /\ calls[d].pc = "wait" /\ calls[d].tx = 1

\* C14: if the endpoint answers every gas-estimate, gas-price and submission
\* request in the end, and every submitted transaction is mined or its wait
\* gives up in the end, then every write call ends, in CONFIRMED or in
\* FAILED.
C14_Terminates ==
  \A c \in Callers :
    (IsWrite(calls[c]) /\ ~Over(calls[c])) ~>
      (StageOf(calls[c].pc) \in {"CONFIRMED", "FAILED"})

\* a call has ended because the wait for its transaction, never mined, gave up
C14_Witness ==
  \E c \in DOMAIN calls :
    /\ IsWrite(calls[c])
    /\ StageOf(calls[c].pc) = "FAILED"
    /\ calls[c].rejected.request = "wait"
    /\ calls[c].seen = "pending"

\* C15: nothing bounds the wait for confirmation: a write call that waits
\* for its transaction changes only by ending, and a call that has
\* submitted a transaction ends only from that wait, returning when the
\* transaction is mined or failing when the wait itself fails; while the
\* transaction is unmined and the wait has not failed, the call does not
\* return, as a success or as a failure.
C15_NoTimeout ==
  [][\A c \in DOMAIN calls :
       /\ (calls[c].pc = "wait" /\ calls'[c] # calls[c]) =>
            Over(calls'[c]) /\ calls'[c].tx = calls[c].tx
       /\ (IsWrite(calls'[c]) /\ calls'[c] # calls[c] /\ Over(calls'[c])
             /\ calls'[c].tx # 0) =>
            /\ calls[c].pc = "wait"
            /\ \/ /\ calls'[c].pc = "returned"
                  /\ txs[calls[c].tx].status = "mined"
               \/ /\ calls'[c].pc = "thrown"
                  /\ calls'[c].rejected.request = "wait"]_vars

\* a call still waits for its transaction, unmined, while a transaction
\* sent before it has been mined
C15_Witness ==
  \E c \in DOMAIN calls :
    /\ calls[c].pc = "wait"
    /\ calls[c].tx = 2
    /\ txs[2].status = "pending"
    /\ txs[1].status # "pending"

\* C16: of two createAgent calls for the same id, in any interleaving, at
\* most one returns a hash, the owner of the record is the address of the
\* signer of the call that returned, and the other call fails without having
\* submitted a transaction that is reverted on the chain.
C16_ConcurrentCreate ==
  \A c, d \in DOMAIN calls :
    (/\ c # d
     /\ calls[c].method = "createAgent" /\ calls[d].method = "createAgent"
     /\ calls[c].fromWallet # undefined /\ calls[d].fromWallet # undefined
     /\ calls[c].agentId = calls[d].agentId) =>
      /\ ~(calls[c].pc = "returned" /\ calls[d].pc = "returned")
      /\ calls[c].pc = "returned" =>
           /\ agents[calls[c].agentId].owner = address(calls[c].fromWallet)
           /\ calls[d].seen # "reverted"
           /\ calls[d].pc = "wait" => txs[calls[d].tx].status # "reverted"

\* C17: in every write call the transaction sent is the contract call whose
\* gas was estimated: the same method, the same arguments, the same signer,
\* and they are those the caller gave; the fee quote attached to it is
\* computed in that call from the estimate and the gas price that call
\* itself asked for, once each: nothing is kept from one call to the next.
C17_SameCallOwnQuote ==
  \A c \in DOMAIN calls :
    LET call == calls[c]
    IN  (IsWrite(call) /\ ~Over(call)) =>
          /\ call.estimated.method = call.method
          /\ call.estimated.args[1] = call.agentId
          /\ call.nEstimateGas = 1
          /\ call.pc \in {"send", "wait"} =>
               /\ call.fromWallet # undefined
               /\ call.contract = address(call.fromWallet)
               /\ SentBy(call) = call.estimated
               /\ call.nGetGasPrice = 1
               /\ call.gas \in GasEstimates
               /\ call.gasPrice \in GasPrices
               /\ call.txOptions.gasLimit =
                    MathRound(FMul(toNumber(call.gas), GAS_MULTIPLIER))
               /\ call.txOptions.gasPrice =
                    MathRound(FMul(toNumber(call.gasPrice),
                                   GAS_PRICE_MULTIPLIER))
          /\ call.pc = "wait" =>
               /\ txs[call.tx].method = call.estimated.method
               /\ txs[call.tx].args = call.estimated.args
               /\ txs[call.tx].from = call.contract
               /\ txs[call.tx].gasLimit = call.txOptions.gasLimit
               /\ txs[call.tx].gasPrice = call.txOptions.gasPrice

\* the second call of a caller has sent its transaction, with the quote of
\* its own estimate
C17_Witness ==
  \E c \in DOMAIN calls :
    /\ invoked = 2
    /\ calls[c].method = "updateAgent"
    /\ calls[c].pc = "wait"
    /\ calls[c].tx = 2
    /\ calls[c].gas = FromNat(50)
    /\ txs[2].gasLimit = FromNat(57)
    /\ txs[2].args = <<calls[c].agentId, calls[c].reference, calls[c].chainIds>>

\* C18: enableAgent and disableAgent pass the owner permission, the number
\* 1, after the id, and nothing else, in the call whose gas is estimated and
\* in the transaction sent, for every signer and id: no enableAgent or
\* disableAgent request or transaction carries another permission.
C18_OwnerPermission ==
  /\ \A c \in DOMAIN calls :
       LET call == calls[c]
       IN  (call.method \in {"enableAgent", "disableAgent"} /\ ~Over(call)) =>
             /\ call.estimated = [method |-> call.method,
                                  args |-> <<call.agentId, 1>>]
             /\ SentBy(call) = [method |-> call.method,
                                args |-> <<call.agentId, 1>>]
  /\ \A h \in 1..Len(txs) :
       txs[h].method \in {"enableAgent", "disableAgent"} =>
         Len(txs[h].args) = 2 /\ txs[h].args[2] = 1

\* a disableAgent transaction has been sent and is waited for
C18_Witness ==
  \E c \in DOMAIN calls :
    /\ calls[c].method = "disableAgent"
    /\ calls[c].pc = "wait"
    /\ txs[calls[c].tx].method = "disableAgent"
    /\ txs[calls[c].tx].args = <<calls[c].agentId, 1>>

\* C19: getAgent, agentExists and isEnabled are pure reads: a step of one of
\* them, whether it returns or fails, leaves every record of the registry
\* (created, owner, metadata, enabled) and the transactions as they were,
\* and the read has asked for no gas estimate and sent nothing.
C19_ReadsArePure ==
  [][\A c \in DOMAIN calls :
       (calls'[c] # calls[c] /\ calls'[c].method \in ReadMethods) =>
         /\ agents' = agents
         /\ enabled' = enabled
         /\ txs' = txs
         /\ everCreated' = everCreated
         /\ calls'[c].nEstimateGas = 0
         /\ calls'[c].nGetGasPrice = 0
         /\ calls'[c].nSend = 0
         /\ calls'[c].tx = 0]_vars

\* isEnabled has failed on an id that is enabled, and the id still is
C19_Witness ==
  \E c \in DOMAIN calls :
    /\ calls[c].method = "isEnabled"
    /\ calls[c].pc = "thrown"
    /\ enabled[calls[c].agentId]

\* C20: getChainId resolves the chain id at most once per process: while
\* FORTA_CHAIN_ID is unset, however the calls follow or overlap each other,
\* the provider's network is asked at most once and every call that returns
\* returns the cached value; while FORTA_CHAIN_ID is set, the provider is
\* never asked, the cache is never written and the variable's number is
\* returned.
C20_ChainIdOnce ==
  /\ ~TruthyString(env) =>
       /\ counts.getNetwork <= 1
       /\ \A g \in Getters :
            gets[g].pc = "returned" => gets[g].result = chainId
  /\ TruthyString(env) =>
       /\ counts.getNetwork = 0
       /\ chainId = NoNumber
       /\ \A g \in Getters :
            /\ gets[g].pc \in {"idle", "returned"}
            /\ gets[g].pc = "returned" => gets[g].result = parseInt(env.chars)
====
